---- MODULE Spec2Model ----
(***************************************************************************)
(* Model of create_tricktakers_csv.py: the range compactor                 *)
(* (list_to_ranges), its formatter (format_range, format_range_list), the  *)
(* classifier (is_tricktaker) and the pipeline process_data followed by    *)
(* write_to_csv.                                                           *)
(*                                                                         *)
(* Python values are modelled as follows.  A str is a TLA+ string, an int  *)
(* an integer, a list or tuple a sequence, a dict a function whose DOMAIN  *)
(* is the set of keys present.  In a slot that holds a str, None is the    *)
(* distinguished string below, which is no element of any set of names or  *)
(* statuses.  A list-valued key is either present with a list or absent    *)
(* (dict.get then yields None); the callers of the list operators decide   *)
(* on the presence of the key, since TLC cannot compare a sequence with a  *)
(* string.                                                                 *)
(***************************************************************************)
EXTENDS Integers, Sequences, FiniteSets, TLC

VARIABLES
    \* ---- the pipeline (main: process_data, then write_to_csv)
    game_list,       \* the records as read from the payload, never written
    data,            \* the list object process_data iterates over
    idx,             \* 1-based position of the for loop of process_data
    processed_data,  \* the list process_data builds
    pc,              \* "process_data" | "write_to_csv" | "done" | "raised"
    err,             \* the propagated exception, "" when none
    csvfile,         \* rows of the CSV file, <<>> while it was never opened
    \* ---- one call of list_to_ranges followed by format_range_list
    numbers_in,      \* the argument as the caller built it
    numbers,         \* the caller's list object after the call
    ranges,          \* the value list_to_ranges returned
    text,            \* the value format_range_list returned
    rpc,             \* "input" | "ranges" | "text"
    \* ---- one call of is_tricktaker
    tag_tuple_list,  \* the argument
    tt_result,       \* the value returned
    tpc              \* "input" | "returned"

pipe_vars == <<game_list, data, idx, processed_data, pc, err, csvfile>>
range_vars == <<numbers_in, numbers, ranges, text, rpc>>
tag_vars == <<tag_tuple_list, tt_result, tpc>>
vars == <<pipe_vars, range_vars, tag_vars>>

None == "<None>"

\* ------------------------------------------------------------------ bounds
MaxNum == 4        \* player counts range over (0 - NegSpan)..MaxNum
NegSpan == 1
MaxLen == 4        \* longest enumerated player_numbers list
MaxTags == 3       \* longest enumerated tag list
MaxRecords == 2    \* longest enumerated game list

\* ------------------------------------------------------- list_to_ranges
\* list.sort() on ints: ascending, duplicates kept.
RECURSIVE InsertSorted(_, _)
InsertSorted(x, s) ==
    IF s = <<>> THEN <<x>>
    ELSE IF x < Head(s) THEN <<x>> \o s
    ELSE <<Head(s)>> \o InsertSorted(x, Tail(s))

RECURSIVE SortAscending(_)
SortAscending(s) ==
    IF s = <<>> THEN <<>>
    ELSE InsertSorted(Head(s), SortAscending(Tail(s)))

\* `not numbers` for a list: the empty list is falsy.
Falsy(v) == v = <<>>

\* The list object passed as `numbers`, after the call: sorted in place
\* (line 30) unless the early return of lines 28-29 was taken.
NumbersAfterCall(nums) ==
    IF Falsy(nums) THEN nums ELSE SortAscending(nums)

\* The for loop of lines 34-40 over the rest of the sorted list.
RECURSIVE ScanRanges(_, _, _, _)
ScanRanges(rest, start, end, acc) ==
    IF rest = <<>> THEN Append(acc, <<start, end>>)
    ELSE LET number == Head(rest) IN
         IF number = end + 1
         THEN ScanRanges(Tail(rest), start, number, acc)
         ELSE ScanRanges(Tail(rest), number, number, Append(acc, <<start, end>>))

\* Mutant: line 30 (numbers.sort()) left out.
ListToRanges_NoSort(nums) ==
    IF Falsy(nums) THEN <<>>
    ELSE ScanRanges(Tail(nums), nums[1], nums[1], <<>>)

ListToRanges(nums) ==
    IF Falsy(nums) THEN <<>>
    ELSE LET sorted == SortAscending(nums) IN
         ScanRanges(Tail(sorted), sorted[1], sorted[1], <<>>)

\* ---------------------------------------------------- format_range(_list)
\* Mutant: the single-value case of line 56 left out.
FormatRange_AlwaysDash(player_range) ==
    ToString(player_range[1]) \o "-" \o ToString(player_range[2])

FormatRange(player_range) ==
    LET min_players == player_range[1]
        max_players == player_range[2]
    IN IF min_players # max_players
       THEN ToString(min_players) \o "-" \o ToString(max_players)
       ELSE ToString(min_players)

\* sep.join(parts)
RECURSIVE StrJoin(_, _)
StrJoin(sep, parts) ==
    IF parts = <<>> THEN ""
    ELSE IF Len(parts) = 1 THEN parts[1]
    ELSE parts[1] \o sep \o StrJoin(sep, Tail(parts))

FormatRangeList(player_range_list) ==
    StrJoin(" or ", [i \in 1..Len(player_range_list) |->
                        FormatRange(player_range_list[i])])

\* --------------------------------------------------------- is_tricktaker
TrickTakingCategory == 220

\* Mutant: either component of a pair may equal the sentinel.
IsTricktaker_AnyComponent(tags) ==
    \E i \in 1..Len(tags) :
        tags[i][1] = TrickTakingCategory \/ tags[i][2] = TrickTakingCategory

\* any(tag == 220 for tag, _ in tag_tuple_list), left to right.
RECURSIVE IsTricktaker(_)
IsTricktaker(tags) ==
    IF tags = <<>> THEN FALSE
    ELSE LET tag == Head(tags)[1] IN
         IF tag = TrickTakingCategory THEN TRUE ELSE IsTricktaker(Tail(tags))

\* ------------------------------------------------------------ input sets
Nums == (0 - NegSpan)..MaxNum

SeqsUpTo(S, n) == UNION {[1..k -> S] : k \in 0..n}

\* The lists of the documented examples, and the duplicate case [1, 1, 2].
ExampleLists == {<<1, 2, 3, 4, 5>>, <<1, 2, 3, 5, 6, 7>>, <<1, 1, 2>>}

NumberLists == SeqsUpTo(Nums, MaxLen) \cup ExampleLists

\* Tag pairs [category, value]: categories around the sentinel, and values
\* that include the sentinel's own number.
TagCategories ==
    {TrickTakingCategory - 1, TrickTakingCategory, TrickTakingCategory + 1}
TagValues == {0, TrickTakingCategory}
TagPairs == TagCategories \X TagValues
TagLists == SeqsUpTo(TagPairs, MaxTags)

PipeIdle ==
    /\ game_list = <<>> /\ data = <<>> /\ idx = 1 /\ processed_data = <<>>
    /\ pc = "idle" /\ err = "" /\ csvfile = <<>>

RangeIdle ==
    /\ numbers_in = <<>> /\ numbers = <<>> /\ ranges = <<>> /\ text = ""
    /\ rpc = "idle"

TagIdle == tag_tuple_list = <<>> /\ tt_result = FALSE /\ tpc = "idle"

\* ------------------------------------------ list_to_ranges, then rendering
InitRanges ==
    /\ numbers_in \in NumberLists
    /\ numbers = numbers_in
    /\ ranges = <<>>
    /\ text = ""
    /\ rpc = "input"
    /\ PipeIdle /\ TagIdle

CallListToRanges ==
    /\ rpc = "input"
    /\ ranges' = ListToRanges(numbers)
    /\ numbers' = NumbersAfterCall(numbers)
    /\ rpc' = "ranges"
    /\ UNCHANGED <<numbers_in, text, pipe_vars, tag_vars>>

CallFormatRangeList ==
    /\ rpc = "ranges"
    /\ text' = FormatRangeList(ranges)
    /\ rpc' = "text"
    /\ UNCHANGED <<numbers_in, numbers, ranges, pipe_vars, tag_vars>>

NextRanges == CallListToRanges \/ CallFormatRangeList

SpecRanges == InitRanges /\ [][NextRanges]_vars

\* ------------------------------------------------- one call of is_tricktaker
InitTags ==
    /\ tag_tuple_list \in TagLists
    /\ tt_result = FALSE
    /\ tpc = "input"
    /\ PipeIdle /\ RangeIdle

CallIsTricktaker ==
    /\ tpc = "input"
    /\ tt_result' = IsTricktaker(tag_tuple_list)
    /\ tpc' = "returned"
    /\ UNCHANGED <<tag_tuple_list, pipe_vars, range_vars>>

NextTags == CallIsTricktaker

SpecTags == InitTags /\ [][NextTags]_vars

\* ------------------------------------------------------------- the pipeline
\* dict.get(key): the value, or None when the key is missing.
ItemGet(item, key) == IF key \in DOMAIN item THEN item[key] ELSE None

\* Line 98: format_range_list(list_to_ranges(item.get('player_numbers'))).
\* A missing key passes None, which line 28 treats as falsy: no ranges.
PlayerNumbersText(item) ==
    IF "player_numbers" \in DOMAIN item
    THEN FormatRangeList(ListToRanges(item.player_numbers))
    ELSE FormatRangeList(<<>>)

\* The record after line 98: list_to_ranges sorted its player_numbers list
\* (the list object of the record itself) in place.
ItemAfterListToRanges(item) ==
    IF "player_numbers" \in DOMAIN item
    THEN [item EXCEPT !.player_numbers = NumbersAfterCall(item.player_numbers)]
    ELSE item

\* Mutant: a missing or null status defaults to 'public'.
NormalizedStatus_Defaulted(item) ==
    IF ItemGet(item, "status") = "private" THEN "alpha"
    ELSE IF ItemGet(item, "status") = None THEN "public"
    ELSE ItemGet(item, "status")

\* Line 100.
NormalizedStatus(item) ==
    IF ItemGet(item, "status") = "private" THEN "alpha"
    ELSE ItemGet(item, "status")

\* Line 102: the tuple appended for a retained record.
OutputRow(item) ==
    <<ItemGet(item, "display_name_en"), NormalizedStatus(item),
      PlayerNumbersText(item)>>

\* Mutant: any missing key raises (item[key] instead of item.get(key)).
TagsNotIterable_AnyMissingKey(item) ==
    \E k \in {"display_name_en", "player_numbers", "tags"} : k \notin DOMAIN item

\* Line 101 with tags = None: iterating None raises TypeError.
TagsNotIterable(item) == "tags" \notin DOMAIN item

\* Line 101 for a record whose tags are a list.
Retained(item) == IsTricktaker(item.tags)

\* Code points of the names of the model, for str comparison.
CodePoints(name) ==
    CASE name = "Apple Game" ->
            <<65, 112, 112, 108, 101, 32, 71, 97, 109, 101>>
      [] name = "Zebra Cards" ->
            <<90, 101, 98, 114, 97, 32, 67, 97, 114, 100, 115>>
      [] name = "" -> <<>>

\* a < b on sequences of code points (str.__lt__).
RECURSIVE SeqLess(_, _)
SeqLess(a, b) ==
    IF b = <<>> THEN FALSE
    ELSE IF a = <<>> THEN TRUE
    ELSE IF Head(a) # Head(b) THEN Head(a) < Head(b)
    ELSE SeqLess(Tail(a), Tail(b))

StrLess(a, b) == SeqLess(CodePoints(a), CodePoints(b))

\* sorted() compares keys with <; None < x and x < None raise TypeError.
\* With two or more rows every row takes part in a comparison.
SortRaises(rows) ==
    Len(rows) >= 2 /\ \E i \in 1..Len(rows) : rows[i][1] = None

\* Stable insertion: row goes behind every row whose key is not greater.
RECURSIVE InsertByName(_, _)
InsertByName(row, rows) ==
    IF rows = <<>> THEN <<row>>
    ELSE IF StrLess(row[1], Head(rows)[1]) THEN <<row>> \o rows
    ELSE <<Head(rows)>> \o InsertByName(row, Tail(rows))

RECURSIVE SortedFrom(_, _)
SortedFrom(rows, acc) ==
    IF rows = <<>> THEN acc
    ELSE SortedFrom(Tail(rows), InsertByName(Head(rows), acc))

\* Mutant: the rows are written in the order given.
SortedByName_Unsorted(rows) == rows

\* Line 120: sorted(data, key=lambda x: x[0]), when no comparison raises.
SortedByName(rows) ==
    IF Len(rows) <= 1 THEN rows ELSE SortedFrom(rows, <<>>)

\* csv.writer renders None as the empty field.  No name, status or players
\* string of the model holds a delimiter, a quote or a line break, so no
\* field is quoted.
CsvField(v) == IF v = None THEN "" ELSE v
CsvRow(row) == [i \in 1..Len(row) |-> CsvField(row[i])]
HeaderRow == <<"Name", "Status", "Players">>

\* Mutant: the header is written only when there are rows.
CsvContents_HeaderIfRows(rows) ==
    IF rows = <<>> THEN <<>>
    ELSE <<HeaderRow>> \o [i \in 1..Len(rows) |-> CsvRow(SortedByName(rows)[i])]

\* Lines 119-120: the header, then the sorted rows.
CsvContents(rows) ==
    <<HeaderRow>> \o [i \in 1..Len(rows) |-> CsvRow(SortedByName(rows)[i])]

\* ---- the records of the model
Names == {"Apple Game", "Zebra Cards"}
RawStatuses == {"private", "public", None}
PlayerLists == {<<3, 1, 2>>}
TagChoices ==
    {<<>>, <<<<TrickTakingCategory, 0>>>>,
     <<<<TrickTakingCategory + 1, TrickTakingCategory>>>>}
Keys == {"display_name_en", "player_numbers", "tags", "status"}

MkItem(keys, n, p, t, s) ==
    [k \in keys |->
        CASE k = "display_name_en" -> n
          [] k = "player_numbers" -> p
          [] k = "tags" -> t
          [] k = "status" -> s]

Records ==
    {MkItem(keys, n, p, t, s) :
        keys \in SUBSET Keys, n \in Names, p \in PlayerLists,
        t \in TagChoices, s \in RawStatuses}

Init ==
    /\ game_list \in SeqsUpTo(Records, MaxRecords)
    /\ data = game_list
    /\ idx = 1
    /\ processed_data = <<>>
    /\ pc = "process_data"
    /\ err = ""
    /\ csvfile = <<>>
    /\ RangeIdle /\ TagIdle

\* One iteration of the for loop of process_data (lines 96-102) that ends
\* normally.
ProcessItem ==
    /\ pc = "process_data"
    /\ idx <= Len(data)
    /\ ~TagsNotIterable(data[idx])
    /\ processed_data' =
          IF Retained(data[idx])
          THEN Append(processed_data, OutputRow(data[idx]))
          ELSE processed_data
    /\ data' = [data EXCEPT ![idx] = ItemAfterListToRanges(data[idx])]
    /\ idx' = idx + 1
    /\ UNCHANGED <<game_list, pc, err, csvfile, range_vars, tag_vars>>

\* The iteration in which is_tricktaker(None) raises at line 101, after
\* line 98 has run; nothing catches it, in process_data or in main.
ProcessItemRaises ==
    /\ pc = "process_data"
    /\ idx <= Len(data)
    /\ TagsNotIterable(data[idx])
    /\ data' = [data EXCEPT ![idx] = ItemAfterListToRanges(data[idx])]
    /\ pc' = "raised"
    /\ err' = "TypeError: 'NoneType' object is not iterable"
    /\ UNCHANGED <<game_list, idx, processed_data, csvfile, range_vars, tag_vars>>

\* Line 103, and main's call of write_to_csv that follows.
ProcessReturn ==
    /\ pc = "process_data"
    /\ idx > Len(data)
    /\ pc' = "write_to_csv"
    /\ UNCHANGED <<game_list, data, idx, processed_data, err, csvfile,
                   range_vars, tag_vars>>

\* write_to_csv (lines 117-120) when sorted() succeeds.
WriteToCsv ==
    /\ pc = "write_to_csv"
    /\ ~SortRaises(processed_data)
    /\ csvfile' = CsvContents(processed_data)
    /\ pc' = "done"
    /\ UNCHANGED <<game_list, data, idx, processed_data, err, range_vars, tag_vars>>

\* write_to_csv when sorted() raises: the header is already written, the
\* with statement closes the file, and the exception propagates.
WriteToCsvRaises ==
    /\ pc = "write_to_csv"
    /\ SortRaises(processed_data)
    /\ csvfile' = <<HeaderRow>>
    /\ pc' = "raised"
    /\ err' = "TypeError: '<' not supported between instances"
    /\ UNCHANGED <<game_list, data, idx, processed_data, range_vars, tag_vars>>

Next ==
    \/ ProcessItem
    \/ ProcessItemRaises
    \/ ProcessReturn
    \/ WriteToCsv
    \/ WriteToCsvRaises

Spec == Init /\ [][Next]_vars

\* ================================================================ claims
Distinct(s) == \A i, j \in 1..Len(s) : i # j => s[i] # s[j]
Elements(s) == {s[i] : i \in 1..Len(s)}
Span(r) == r[1]..r[2]
Covered(rs) == UNION {Span(rs[i]) : i \in 1..Len(rs)}
ListToRangesReturned == rpc \in {"ranges", "text"}

\* C1: for a list of distinct integers in any order, every returned range has
\* start <= end, each range starts at least 2 above the end of the one before
\* it (ascending, disjoint, not adjacent), the ranges span exactly the input
\* values, and the empty list gives the empty sequence.
C1_RangesOfDistinctInput ==
    (ListToRangesReturned /\ Distinct(numbers_in)) =>
        /\ \A i \in 1..Len(ranges) : ranges[i][1] <= ranges[i][2]
        /\ \A i \in 1..(Len(ranges) - 1) : ranges[i + 1][1] >= ranges[i][2] + 2
        /\ Covered(ranges) = Elements(numbers_in)
        /\ (numbers_in = <<>> => ranges = <<>>)

C1_Witness ==
    /\ ListToRangesReturned
    /\ Distinct(numbers_in)
    /\ numbers_in # numbers
    /\ Len(ranges) >= 2
    /\ \E i \in 1..Len(ranges) : ranges[i][1] < ranges[i][2]

\* The ascending list of the distinct values of s.
RECURSIVE AscendingSeqOf(_)
AscendingSeqOf(S) ==
    IF S = {} THEN <<>>
    ELSE LET m == CHOOSE x \in S : \A y \in S : x <= y
         IN <<m>> \o AscendingSeqOf(S \ {m})

\* C2: for a list of non-negative integers that may be unsorted and may hold
\* duplicates, the result is
\* the result for the deduplicated input: well-formed maximal ranges that span
\* exactly the input values, no value spanned by two ranges.
C2_DuplicatesCollapse ==
    (ListToRangesReturned /\ \A i \in 1..Len(numbers_in) : numbers_in[i] >= 0) =>
        /\ ranges = ListToRanges(AscendingSeqOf(Elements(numbers_in)))
        /\ \A i \in 1..Len(ranges) : ranges[i][1] <= ranges[i][2]
        /\ Covered(ranges) = Elements(numbers_in)
        /\ \A i, j \in 1..Len(ranges) :
              i # j => Span(ranges[i]) \cap Span(ranges[j]) = {}

\* C8 as the claim words it: one range alone, then ranges joined in order.
C8_RenderOne(r) ==
    IF r[1] = r[2] THEN ToString(r[1])
    ELSE ToString(r[1]) \o "-" \o ToString(r[2])

RECURSIVE C8_Render(_)
C8_Render(rs) ==
    IF rs = <<>> THEN ""
    ELSE IF Len(rs) = 1 THEN C8_RenderOne(rs[1])
    ELSE C8_Render(SubSeq(rs, 1, Len(rs) - 1)) \o " or "
            \o C8_RenderOne(rs[Len(rs)])

\* C8: format_range_list renders a range with start = end as the value alone,
\* a range with start < end as 'start-end', joins the ranges in order with
\* ' or ' and renders no range as ''; after list_to_ranges, [1,2,3,4,5] gives
\* '1-5', [1,2,3,5,6,7] gives '1-3 or 5-7' and [] gives ''.
C8_Rendering ==
    rpc = "text" =>
        /\ text = C8_Render(ranges)
        /\ (ranges = <<>> => text = "")
        /\ (numbers_in = <<1, 2, 3, 4, 5>> => text = "1-5")
        /\ (numbers_in = <<1, 2, 3, 5, 6, 7>> => text = "1-3 or 5-7")
        /\ (numbers_in = <<>> => text = "")

C8_Witness ==
    /\ rpc = "text"
    /\ Len(ranges) >= 2
    /\ \E i \in 1..Len(ranges) : ranges[i][1] = ranges[i][2]
    /\ \E i \in 1..Len(ranges) : ranges[i][1] < ranges[i][2]
    /\ text = "0 or 2-3"

\* C3: is_tricktaker returns true exactly when some pair's first component is
\* 220; the second components play no part; [[221, v]] and [] give false.
C3_ClassifierIffCategory ==
    tpc = "returned" =>
        /\ tt_result <=>
              \E i \in 1..Len(tag_tuple_list) :
                  tag_tuple_list[i][1] = TrickTakingCategory
        /\ (tag_tuple_list = <<>> => ~tt_result)
        /\ (\A i \in 1..Len(tag_tuple_list) :
                tag_tuple_list[i][1] = TrickTakingCategory + 1) => ~tt_result

C3_Witness ==
    /\ tpc = "returned"
    /\ tt_result
    /\ Len(tag_tuple_list) >= 2
    /\ tag_tuple_list[1] = <<TrickTakingCategory + 1, TrickTakingCategory>>
    /\ tag_tuple_list[Len(tag_tuple_list)][1] = TrickTakingCategory

\* ---- the pipeline's claims
HasTrickTag(item) ==
    /\ "tags" \in DOMAIN item
    /\ \E i \in 1..Len(item.tags) : item.tags[i][1] = TrickTakingCategory

\* The positions, in input order, of the records among the first n that
\* carry a category-220 tag.
RECURSIVE TaggedUpTo(_)
TaggedUpTo(n) ==
    IF n = 0 THEN <<>>
    ELSE IF HasTrickTag(game_list[n]) THEN Append(TaggedUpTo(n - 1), n)
    ELSE TaggedUpTo(n - 1)

\* The record the k-th row of processed_data was made from.
SourceOfRow(k) == game_list[TaggedUpTo(idx - 1)[k]]

ProcessDataRaised == pc = "raised" /\ csvfile = <<>>
ProcessDataReturned == pc \in {"write_to_csv", "done"} \/ (pc = "raised" /\ csvfile # <<>>)
RawStatus(item) == IF "status" \in DOMAIN item THEN item.status ELSE None

\* C4: a record whose tags are absent or empty is excluded without an error:
\* process_data does not raise at it, and once the loop is past it no row
\* was made from it.
C4_AbsentTagsExcludedSilently ==
    \A i \in 1..Len(game_list) :
        ("tags" \notin DOMAIN game_list[i] \/ game_list[i].tags = <<>>) =>
            /\ ~(ProcessDataRaised /\ idx = i)
            /\ (i < idx => Len(processed_data) = Len(TaggedUpTo(idx - 1)))

\* C5 as stated: the list process_data returns is ascending by name.
C5_ProcessDataReturnsSorted ==
    ProcessDataReturned =>
        \A k \in 1..(Len(processed_data) - 1) :
            (processed_data[k][1] # None /\ processed_data[k + 1][1] # None) =>
                ~StrLess(processed_data[k + 1][1], processed_data[k][1])

\* C5 amended: process_data returns the retained rows in the order of the
\* input records, unsorted; write_to_csv sorts them, so in the CSV it writes
\* each data row's name is less than or equal to the name of the row after it.
C5_SortedOnWrite ==
    /\ ProcessDataReturned =>
          /\ Len(processed_data) = Len(TaggedUpTo(idx - 1))
          /\ \A k \in 1..Len(processed_data) :
                processed_data[k][1] =
                    (IF "display_name_en" \in DOMAIN SourceOfRow(k)
                     THEN SourceOfRow(k).display_name_en ELSE None)
    /\ \A k \in 2..(Len(csvfile) - 1) :
          ~StrLess(csvfile[k + 1][1], csvfile[k][1])
    /\ (pc = "done" => Len(csvfile) = Len(processed_data) + 1)

C5_Witness ==
    /\ pc = "done"
    /\ Len(processed_data) = 2
    /\ processed_data[1][1] = "Zebra Cards"
    /\ processed_data[2][1] = "Apple Game"
    /\ csvfile[2][1] = "Apple Game"
    /\ csvfile[3][1] = "Zebra Cards"

\* The number of positions of s whose element satisfies Test.
Count(s, Test(_)) == Cardinality({i \in 1..Len(s) : Test(s[i])})

\* C6: after process_data and write_to_csv the CSV begins with the header
\* row, also when no record qualifies; it is followed by exactly one data row
\* per input record with a category-220 tag and none for any other record,
\* and the data rows are ascending by name.
C6_EndToEnd ==
    /\ (csvfile # <<>> => csvfile[1] = HeaderRow)
    /\ pc = "done" =>
          /\ Len(csvfile) >= 1
          /\ Len(csvfile) - 1 = Count(game_list, HasTrickTag)
          /\ \A n \in Names \cup {""} :
                Count(Tail(csvfile), LAMBDA row : row[1] = n) =
                Count(game_list,
                      LAMBDA item : HasTrickTag(item) /\
                          (IF "display_name_en" \in DOMAIN item
                           THEN item.display_name_en ELSE "") = n)
          /\ \A k \in 2..(Len(csvfile) - 1) :
                ~StrLess(csvfile[k + 1][1], csvfile[k][1])

C6_Witness ==
    /\ pc = "done"
    /\ Len(game_list) = 2
    /\ Keys \subseteq DOMAIN game_list[1] /\ Keys \subseteq DOMAIN game_list[2]
    /\ game_list[1].display_name_en = "Zebra Cards"
    /\ game_list[1].tags = <<<<TrickTakingCategory, 0>>>>
    /\ game_list[2].display_name_en = "Apple Game"
    /\ game_list[2].tags = <<<<TrickTakingCategory + 1, TrickTakingCategory>>>>
    /\ Len(csvfile) = 2
    /\ csvfile[2][1] = "Zebra Cards"

C6_WitnessNoneQualifies ==
    pc = "done" /\ Len(game_list) = 2 /\ csvfile = <<HeaderRow>>

\* C7: in every row process_data produced the status is 'alpha' when the raw
\* status is 'private' and otherwise the raw status unchanged, None when the
\* status is null or absent; only 'private' (or 'alpha' itself) gives 'alpha'.
C7_StatusNormalized ==
    \A k \in 1..Len(processed_data) :
        LET raw == RawStatus(SourceOfRow(k)) IN
        /\ (raw = "private" => processed_data[k][2] = "alpha")
        /\ (raw # "private" => processed_data[k][2] = raw)
        /\ (processed_data[k][2] = "alpha" => raw \in {"private", "alpha"})

C7_Witness ==
    /\ ProcessDataReturned
    /\ Len(processed_data) = 2
    /\ RawStatus(SourceOfRow(1)) = "private" /\ processed_data[1][2] = "alpha"
    /\ "status" \notin DOMAIN SourceOfRow(2) /\ processed_data[2][2] = None

Malformed(item) ==
    "display_name_en" \notin DOMAIN item \/ "player_numbers" \notin DOMAIN item

\* C9 as stated: a record that lacks the name key or the player_numbers key
\* makes process_data raise: the loop never gets past it, and no row with an
\* empty players string is made from a tagged record without player_numbers.
C9_MalformedRecordRaises ==
    /\ \A i \in 1..Len(game_list) : Malformed(game_list[i]) => idx <= i
    /\ \A k \in 1..Len(processed_data) :
          "player_numbers" \notin DOMAIN SourceOfRow(k) => processed_data[k][3] # ""

\* C9 amended: a record that lacks the name key or the player_numbers key
\* raises nothing in process_data: the missing value reads as None, and a
\* category-220 record yields a row whose name is None (name missing) and
\* whose players string is empty (player_numbers missing).  The only error
\* process_data propagates is the TypeError for a record without the tags
\* key; then the run has ended with no CSV file written.
C9_MissingKeysReadAsNone ==
    /\ ProcessDataRaised =>
          /\ idx <= Len(game_list)
          /\ "tags" \notin DOMAIN game_list[idx]
    /\ Len(processed_data) = Len(TaggedUpTo(idx - 1))
    /\ \A k \in 1..Len(processed_data) :
          /\ "display_name_en" \notin DOMAIN SourceOfRow(k) =>
                processed_data[k][1] = None
          /\ "player_numbers" \notin DOMAIN SourceOfRow(k) =>
                processed_data[k][3] = ""

C9_Witness ==
    /\ pc = "write_to_csv"
    /\ Len(processed_data) = 1
    /\ DOMAIN SourceOfRow(1) = {"tags", "status"}
    /\ processed_data[1][1] = None
    /\ processed_data[1][3] = ""

\* C10: after process_data every input record equals the record as read, the
\* order of its player_numbers included.
C10_InputUnchanged == ProcessDataReturned => data = game_list

====
